---- MODULE Spec2Model ----
(***************************************************************************)
(* Billing ledger of the zalegal case tracker.                             *)
(*                                                                         *)
(* The store is the 'cases' collection of the realtime database.  Three    *)
(* components write to it: CaseEntryForm (createCase), the bill list with  *)
(* payments (BillList: updateCaseDetails and recordPayment) and the search *)
(* page (SearchCases: updateCaseDetails).  Each mounted list view keeps    *)
(* React state (allCases, selectedCase, editFormData, ...) and at most one *)
(* store write in flight.  The bill list may be open in two browser        *)
(* sessions at once: BillList and BillList2 are two mounts of the same     *)
(* component.  BillAnalytics and Dashboard only read the collection: they  *)
(* filter, sum and bucket the cases of the last snapshot by date.          *)
(*                                                                         *)
(* JavaScript objects are functions from field names to values, so that a  *)
(* spread {...a, ...b} is  b @@ a  and a missing field is a name outside   *)
(* the DOMAIN.  Amounts are dynamically typed in the source (number |       *)
(* string, NaN from an empty number input, undefined for a property that   *)
(* is not there); an amount is a tagged value here: [num |-> n],           *)
(* [str |-> s], [nan |-> TRUE] or [undefined |-> TRUE].                    *)
(***************************************************************************)
EXTENDS Integers, Sequences, FiniteSets, TLC

VARIABLES
    cases,            \* the store: case id -> stored document
    pushed,           \* number of ids handed out by push()
    writes,           \* number of store writes started so far
    edits,            \* number of changes made in edit forms so far
    allCases,         \* per view: the list built by the last feed notification
    selectedCase,     \* per view: the case shown in the detail view, or Null
    isEditing,        \* per view: edit form shown (viewMode = 'EDITING' in SearchCases)
    editFormData,     \* per view: the edit form's working copy, or Null
    isUpdating,       \* per view: the "saving" flag
    pending,          \* per view: the store write in flight, or Null
    isAddingPayment,  \* per bill list: add-payment form shown
    toast,            \* the toast raised by the last step, "" if it raised none
    formErrors,       \* CaseEntryForm: fields the resolver reported at the last submit
    timeFilter        \* BillAnalytics: the time window shown

vars == <<cases, pushed, writes, edits, allCases, selectedCase, isEditing, editFormData,
          isUpdating, pending, isAddingPayment, toast, formErrors, timeFilter>>

----------------------------------------------------------------------------
(* Bounds *)

MaxWrites == 3
MaxEdits == 1
\* cases created through the entry form
MaxCases == 2

----------------------------------------------------------------------------
(* Values *)

Null == [null |-> TRUE]

\* a handler that raises no toast
NoToast == toast' = ""
NaN == [nan |-> TRUE]
Num(n) == [num |-> n]
Str(s) == [str |-> s]

\* the value of a property that is not there
Undefined == [undefined |-> TRUE]

EmptyObject == [k \in {} |-> TRUE]

Has(o, k) == k \in DOMAIN o

Without(o, ks) == [k \in (DOMAIN o) \ ks |-> o[k]]

\* the property read o.k
Field(o, k) == IF Has(o, k) THEN o[k] ELSE Undefined

\* push() keys are handed out in increasing order; Object.entries lists them in key order.
IdOrder == <<"c1", "c2", "c3", "c4">>

CaseIds == {IdOrder[i] : i \in 1..Len(IdOrder)}

Views == {"BillList", "BillList2", "SearchCases", "BillAnalytics", "Dashboard"}

\* the mounts of the bill list with payments
IsBillList(v) == v \in {"BillList", "BillList2"}

----------------------------------------------------------------------------
(* JavaScript conversions used by the ledger code *)

\* The decimal strings an <input type="number"> of the model hands to the handlers.
Decimal == ("0" :> 0) @@ ("2" :> 2) @@ ("-1" :> (0 - 1))

\* Number(s) for a string s: the empty string is 0, a decimal its value, else NaN.
NumberOfString(s) ==
    IF s = "" THEN Num(0)
    ELSE IF s \in DOMAIN Decimal THEN Num(Decimal[s])
    ELSE NaN

\* JavaScript truthiness of an amount: 0, NaN and '' are falsy ('0' is truthy).
Truthy(a) ==
    CASE Has(a, "num") -> a.num # 0
      [] Has(a, "str") -> a.str # ""
      [] OTHER -> FALSE

\* Number(p.amount || 0)
SanitizeAmount(a) ==
    IF ~Truthy(a) THEN Num(0)
    ELSE IF Has(a, "str") THEN NumberOfString(a.str)
    ELSE a

\* Number(a): ToNumber of a value
ToNumber(a) ==
    CASE Has(a, "num") -> a
      [] Has(a, "str") -> NumberOfString(a.str)
      [] Has(a, "null") -> Num(0)
      [] OTHER -> NaN

\* String(a): ToString of a value
ToStr(a) ==
    CASE Has(a, "num") -> ToString(a.num)
      [] Has(a, "str") -> a.str
      [] Has(a, "nan") -> "NaN"
      [] Has(a, "null") -> "null"
      [] OTHER -> "undefined"

\* a + b: concatenation as soon as one operand is a string, else the numeric sum
Plus(a, b) ==
    IF Has(a, "str") \/ Has(b, "str") THEN Str(ToStr(a) \o ToStr(b))
    ELSE IF Has(ToNumber(a), "num") /\ Has(ToNumber(b), "num")
         THEN Num(ToNumber(a).num + ToNumber(b).num)
         ELSE NaN

\* a - b: always numeric
Minus(a, b) ==
    IF Has(ToNumber(a), "num") /\ Has(ToNumber(b), "num")
    THEN Num(ToNumber(a).num - ToNumber(b).num)
    ELSE NaN

\* (a || 0)
AmountOrZero(a) == IF Truthy(a) THEN a ELSE Num(0)

RECURSIVE SumParticulars(_)
\* particulars.reduce((sum, p) => sum + (p.amount || 0), 0)
SumParticulars(ps) ==
    IF ps = <<>> THEN Num(0)
    ELSE Plus(SumParticulars(SubSeq(ps, 1, Len(ps) - 1)),
              AmountOrZero(Field(ps[Len(ps)], "amount")))

RECURSIVE SumPayments(_)
\* payments.reduce((sum, p) => sum + p.amount, 0)
SumPayments(ps) ==
    IF ps = <<>> THEN Num(0)
    ELSE Plus(SumPayments(SubSeq(ps, 1, Len(ps) - 1)), Field(ps[Len(ps)], "amount"))

\* JSON.parse(JSON.stringify(c)): strings, finite numbers, arrays and plain objects
\* come back as they were; a NaN amount comes back as null.
JsonAmount(a) == IF Has(a, "nan") THEN Null ELSE a

JsonCopy(c) ==
    [k \in DOMAIN c |->
        IF k = "particulars"
        THEN [i \in 1..Len(c.particulars) |->
                ("amount" :> JsonAmount(c.particulars[i].amount)) @@ c.particulars[i]]
        ELSE c[k]]

----------------------------------------------------------------------------
(* Dates.  A Date object is known by its time value, counted in days since *)
(* the epoch: every date of the model is a midnight, and the local time    *)
(* zone is UTC.  An Invalid Date has the time value NaN.                   *)

DateAt(days) == [time |-> Num(days)]

InvalidDate == [time |-> NaN]

\* !isNaN(date.getTime())
IsValidDate(date) == Has(date.time, "num")

\* days since the epoch of the proleptic Gregorian date y-m-d (m = 1..12)
DaysFromCivil(y, m, d) ==
    LET yy == IF m <= 2 THEN y - 1 ELSE y
        era == yy \div 400
        yoe == yy - era * 400
        doy == (153 * (IF m > 2 THEN m - 3 ELSE m + 9) + 2) \div 5 + d - 1
        doe == yoe * 365 + yoe \div 4 - yoe \div 100 + doy
    IN  era * 146097 + doe - 719468

\* the calendar fields of a time value: getFullYear(), getMonth() + 1, getDate()
CivilFromDays(z) ==
    LET zz == z + 719468
        era == zz \div 146097
        doe == zz - era * 146097
        yoe == (doe - doe \div 1460 + doe \div 36524 - doe \div 146096) \div 365
        doy == doe - (365 * yoe + yoe \div 4 - yoe \div 100)
        mp == (5 * doy + 2) \div 153
        m == IF mp < 10 THEN mp + 3 ELSE mp - 9
    IN  [year |-> yoe + era * 400 + (IF m <= 2 THEN 1 ELSE 0),
         month |-> m,
         day |-> doy - (153 * mp + 2) \div 5 + 1]

GetFullYear(date) == CivilFromDays(date.time.num).year

\* getMonth(): 0-indexed
GetMonth(date) == CivilFromDays(date.time.num).month - 1

GetDate(date) == CivilFromDays(date.time.num).day

\* getDay(): 0 = Sunday; the epoch was a Thursday
GetDay(date) == (date.time.num + 4) % 7

DaysInMonth(y, m) == DaysFromCivil(IF m = 12 THEN y + 1 ELSE y, IF m = 12 THEN 1 ELSE m + 1, 1)
                        - DaysFromCivil(y, m, 1)

\* new Date(year, monthIndex, day) for numbers: a year 0..99 counts from 1900, a
\* month index or day out of range rolls over; Invalid Date if an argument is NaN.
NewDate(year, monthIndex, day) ==
    IF Has(year, "nan") \/ Has(monthIndex, "nan") \/ Has(day, "nan") THEN InvalidDate
    ELSE LET y == IF year.num \in 0..99 THEN 1900 + year.num ELSE year.num
             yy == y + monthIndex.num \div 12
             mm == monthIndex.num % 12
         IN  DateAt(DaysFromCivil(yy, mm + 1, 1) + day.num - 1)

\* The date strings of the model, by their text: the parts between the separators
\* of the date (a run of k digits that reads n, or a part that is no number), the
\* separator, and what follows the date.
DateText ==
    LET Digits(k, n) == [digits |-> k, value |-> n]
        Word == [word |-> TRUE]
    IN
        ("2024-06-10T00:00:00.000Z" :>
            [parts |-> <<Digits(4, 2024), Digits(2, 6), Digits(2, 10)>>, sep |-> "-",
             time |-> "T00:00:00.000Z"])
        @@ ("2024-06-12" :>
            [parts |-> <<Digits(4, 2024), Digits(2, 6), Digits(2, 12)>>, sep |-> "-", time |-> ""])
        @@ ("2024-06-09" :>
            [parts |-> <<Digits(4, 2024), Digits(2, 6), Digits(2, 9)>>, sep |-> "-", time |-> ""])
        @@ ("2024-03-15" :>
            [parts |-> <<Digits(4, 2024), Digits(2, 3), Digits(2, 15)>>, sep |-> "-", time |-> ""])
        @@ ("15-03-2024" :>
            [parts |-> <<Digits(2, 15), Digits(2, 3), Digits(4, 2024)>>, sep |-> "-", time |-> ""])
        @@ ("15/03/2024" :>
            [parts |-> <<Digits(2, 15), Digits(2, 3), Digits(4, 2024)>>, sep |-> "/", time |-> ""])
        @@ ("2024-04-03" :>
            [parts |-> <<Digits(4, 2024), Digits(2, 4), Digits(2, 3)>>, sep |-> "-", time |-> ""])
        @@ ("03/04/2024" :>
            [parts |-> <<Digits(2, 3), Digits(2, 4), Digits(4, 2024)>>, sep |-> "/", time |-> ""])
        @@ ("2023-12-25" :>
            [parts |-> <<Digits(4, 2023), Digits(2, 12), Digits(2, 25)>>, sep |-> "-", time |-> ""])
        @@ ("not-a-date" :> [parts |-> <<Word, Word, Word>>, sep |-> "-", time |-> ""])
        @@ ("15.03.2024" :> [parts |-> <<Word>>, sep |-> "", time |-> ""])
        @@ ("garbage" :> [parts |-> <<Word>>, sep |-> "", time |-> ""])
        @@ ("" :> [parts |-> <<Word>>, sep |-> "", time |-> ""])

TextOf(dateString) ==
    IF dateString \in DOMAIN DateText THEN DateText[dateString]
    ELSE [parts |-> <<[word |-> TRUE]>>, sep |-> "", time |-> ""]

\* the string is an ISO 8601 calendar date YYYY-MM-DD of a day that exists, alone
\* or followed by the time of a UTC midnight
IsISO(dateString) ==
    LET t == TextOf(dateString)
    IN  /\ t.sep = "-"
        /\ Len(t.parts) = 3
        /\ \A i \in 1..3 : Has(t.parts[i], "digits")
        /\ t.parts[1].digits = 4 /\ t.parts[2].digits = 2 /\ t.parts[3].digits = 2
        /\ t.parts[2].value \in 1..12
        /\ t.parts[3].value \in 1..DaysInMonth(t.parts[1].value, t.parts[2].value)

\* date-fns parseISO: the date of an ISO string, Invalid Date for any other string
parseISO(dateString) ==
    LET t == TextOf(dateString)
    IN  IF IsISO(dateString)
        THEN DateAt(DaysFromCivil(t.parts[1].value, t.parts[2].value, t.parts[3].value))
        ELSE InvalidDate

\* new Date(dateString): an ISO string as parseISO reads it; of the other formats
\* the engines read M/D/YYYY, month first, and make anything else an Invalid Date.
NativeDate(dateString) ==
    LET t == TextOf(dateString)
    IN  IF IsISO(dateString) THEN parseISO(dateString)
        ELSE IF /\ t.sep = "/" /\ Len(t.parts) = 3 /\ t.time = ""
                /\ \A i \in 1..3 : Has(t.parts[i], "digits")
                /\ t.parts[3].digits = 4
                /\ t.parts[1].value \in 1..12
                /\ t.parts[2].value \in 1..DaysInMonth(t.parts[3].value, t.parts[1].value)
             THEN DateAt(DaysFromCivil(t.parts[3].value, t.parts[1].value, t.parts[2].value))
             ELSE InvalidDate

\* dateString.split(/[-/]/).map(Number): what follows the date is part of the
\* last piece, which is then no number
SplitNumbers(dateString) ==
    LET t == TextOf(dateString)
    IN  [i \in 1..Len(t.parts) |->
            IF Has(t.parts[i], "digits") /\ (i < Len(t.parts) \/ t.time = "")
            THEN Num(t.parts[i].value) ELSE NaN]

\* the second attempt of both normalizers: DAY, MONTH, YEAR between '-' or '/'
DayMonthYear(dateString) ==
    LET parts == SplitNumbers(dateString)
    IN  IF Len(parts) = 3
        THEN NewDate(parts[3], Minus(parts[2], Num(1)), parts[1])
        ELSE InvalidDate

\* BillAnalytics.parseDate: null for an empty string, else the ISO reading, else
\* the DAY-MONTH-YEAR reading, else null
parseDate(dateString) ==
    IF dateString = "" THEN Null
    ELSE IF IsValidDate(parseISO(dateString)) THEN parseISO(dateString)
    ELSE IF IsValidDate(DayMonthYear(dateString)) THEN DayMonthYear(dateString)
    ELSE Null

\* Dashboard.parseDate: the same with new Date(dateString) as the first attempt
DashboardParseDate(dateString) ==
    IF dateString = "" THEN Null
    ELSE IF IsValidDate(NativeDate(dateString)) THEN NativeDate(dateString)
    ELSE IF IsValidDate(DayMonthYear(dateString)) THEN DayMonthYear(dateString)
    ELSE Null

\* c.date, a missing date being as falsy as the empty string
DateString(c) == IF Has(c, "date") THEN c.date ELSE ""

DayName == <<"Sun", "Mon", "Tue", "Wed", "Thu", "Fri", "Sat">>

MonthName ==
    <<"Jan", "Feb", "Mar", "Apr", "May", "Jun", "Jul", "Aug", "Sep", "Oct", "Nov", "Dec">>

\* date-fns format(date, pattern) for the patterns of the charts
Format(date, pattern) ==
    LET Pad2(n) == IF n < 10 THEN "0" \o ToString(n) ELSE ToString(n)
    IN
    CASE pattern = "HH:00" -> "00:00"
      [] pattern = "EEE" -> DayName[GetDay(date) + 1]
      [] pattern = "dd MMM" -> Pad2(GetDate(date)) \o " " \o MonthName[GetMonth(date) + 1]
      [] pattern = "MMM" -> MonthName[GetMonth(date) + 1]
      [] pattern = "MMM yyyy" ->
            MonthName[GetMonth(date) + 1] \o " " \o ToString(GetFullYear(date))

\* array.indexOf(x): 0-based, -1 if x is not in the array
IndexOf(array, x) ==
    IF \E i \in 1..Len(array) : array[i] = x
    THEN (CHOOSE i \in 1..Len(array) : array[i] = x /\ \A j \in 1..(i - 1) : array[j] # x) - 1
    ELSE 0 - 1

RECURSIVE InsertByKey(_, _)
\* x goes behind every element whose key is not greater than its own
InsertByKey(sorted, x) ==
    IF sorted = <<>> THEN <<x>>
    ELSE IF sorted[Len(sorted)].key > x.key
         THEN Append(InsertByKey(SubSeq(sorted, 1, Len(sorted) - 1), x), sorted[Len(sorted)])
         ELSE Append(sorted, x)

RECURSIVE SortByKey(_)
\* Array.prototype.sort with a comparator a.key - b.key: ascending and stable
SortByKey(xs) ==
    IF xs = <<>> THEN <<>>
    ELSE InsertByKey(SortByKey(SubSeq(xs, 1, Len(xs) - 1)), xs[Len(xs)])

\* new Date(c.date).getTime()
GetTime(c) == NativeDate(IF Has(c, "date") THEN c.date ELSE "").time

----------------------------------------------------------------------------
(* The store: update() merges the supplied fields into one document; the   *)
(* database keeps no empty array, so a field written as [] is removed.     *)

Present(id) == id \in DOMAIN cases

DropEmptyArrays(doc) ==
    Without(doc, {k \in {"particulars", "payments"} : Has(doc, k) /\ doc[k] = <<>>})

StoreUpdate(store, id, data) ==
    LET old == IF id \in DOMAIN store THEN store[id] ELSE EmptyObject
    IN  (id :> DropEmptyArrays(data @@ old)) @@ store

StoreSet(store, id, data) == (id :> DropEmptyArrays(data)) @@ store

\* the documents of a snapshot in key order (Object.entries(snapshot.val()))
Entries(store) == SelectSeq(IdOrder, LAMBDA id : id \in DOMAIN store)

----------------------------------------------------------------------------
(* Feed subscriptions: what each view derives from a snapshot *)

\* a faulty BillList mapping, with ...caseData spread last: the stored paidAmount
\* and remainingAmount win over the recomputed ones
BillListCase_StoredWins(id, caseData) ==
    LET payments == IF Has(caseData, "payments") THEN caseData.payments ELSE <<>>
        paidAmount == SumPayments(payments)
        totalAmount == AmountOrZero(Field(caseData, "totalAmount"))
    IN  caseData @@ ("id" :> id)
        @@ [k \in {"particulars", "payments", "paidAmount", "remainingAmount"} |->
            CASE k = "particulars" -> <<>>
              [] k = "payments" -> payments
              [] k = "paidAmount" -> paidAmount
              [] k = "remainingAmount" -> Minus(totalAmount, paidAmount)]

\* BillList: paidAmount and remainingAmount are recomputed, payments and
\* particulars default to [], stored derived fields are overwritten.
BillListCase(id, caseData) ==
    LET payments == IF Has(caseData, "payments") THEN caseData.payments ELSE <<>>
        paidAmount == SumPayments(payments)
        totalAmount == AmountOrZero(Field(caseData, "totalAmount"))
    IN  [k \in {"particulars", "payments", "paidAmount", "remainingAmount"} |->
            CASE k = "particulars" ->
                    IF Has(caseData, "particulars") THEN caseData.particulars ELSE <<>>
              [] k = "payments" -> payments
              [] k = "paidAmount" -> paidAmount
              [] k = "remainingAmount" -> Minus(totalAmount, paidAmount)]
        @@ caseData @@ ("id" :> id)

\* (a, b) => new Date(b.date).getTime() - new Date(a.date).getTime(); a NaN
\* result counts as 0 in Array.prototype.sort.
CompareDateDesc(a, b) ==
    IF Has(GetTime(a), "nan") \/ Has(GetTime(b), "nan") THEN 0
    ELSE GetTime(b).num - GetTime(a).num

RECURSIVE InsertByDate(_, _)
InsertByDate(sorted, c) ==
    IF sorted = <<>> THEN <<c>>
    ELSE IF CompareDateDesc(sorted[Len(sorted)], c) > 0
         THEN Append(InsertByDate(SubSeq(sorted, 1, Len(sorted) - 1), c), sorted[Len(sorted)])
         ELSE Append(sorted, c)

RECURSIVE SortByDateDesc(_)
\* casesArray.sort(...): a stable sort
SortByDateDesc(cs) ==
    IF cs = <<>> THEN <<>>
    ELSE InsertByDate(SortByDateDesc(SubSeq(cs, 1, Len(cs) - 1)), cs[Len(cs)])

BillListFeed(store) ==
    LET ids == Entries(store)
    IN  SortByDateDesc([i \in 1..Len(ids) |-> BillListCase(ids[i], store[ids[i]])])

\* SearchCases: the stored document as it is, particulars defaulting to [].
SearchCasesCase(id, caseData) ==
    ("particulars" :> (IF Has(caseData, "particulars") THEN caseData.particulars ELSE <<>>))
        @@ caseData @@ ("id" :> id)

SearchCasesFeed(store) ==
    LET ids == Entries(store)
    IN  [i \in 1..Len(ids) |-> SearchCasesCase(ids[i], store[ids[i]])]

\* BillAnalytics: payments default to [], paidAmount and remainingAmount are
\* recomputed; particulars are left as stored.
BillAnalyticsCase(id, caseData) ==
    LET payments == IF Has(caseData, "payments") THEN caseData.payments ELSE <<>>
        paidAmount == SumPayments(payments)
        totalAmount == AmountOrZero(Field(caseData, "totalAmount"))
    IN  [k \in {"payments", "paidAmount", "remainingAmount"} |->
            CASE k = "payments" -> payments
              [] k = "paidAmount" -> paidAmount
              [] k = "remainingAmount" -> Minus(totalAmount, paidAmount)]
        @@ caseData @@ ("id" :> id)

\* Dashboard: the same fields as the bill list derives
DashboardCase(id, caseData) ==
    LET payments == IF Has(caseData, "payments") THEN caseData.payments ELSE <<>>
        paidAmount == SumPayments(payments)
        totalAmount == AmountOrZero(Field(caseData, "totalAmount"))
    IN  [k \in {"particulars", "payments", "paidAmount", "remainingAmount"} |->
            CASE k = "particulars" ->
                    IF Has(caseData, "particulars") THEN caseData.particulars ELSE <<>>
              [] k = "payments" -> payments
              [] k = "paidAmount" -> paidAmount
              [] k = "remainingAmount" -> Minus(totalAmount, paidAmount)]
        @@ caseData @@ ("id" :> id)

BillAnalyticsFeed(store) ==
    LET ids == Entries(store)
    IN  [i \in 1..Len(ids) |-> BillAnalyticsCase(ids[i], store[ids[i]])]

\* parseDate(c.date)?.getTime() || 0 with the normalizer of BillAnalytics
TimeOrZero(c) ==
    IF parseDate(DateString(c)) = Null THEN 0 ELSE parseDate(DateString(c)).time.num

\* parseDate(c.date)?.getTime() || 0 with the normalizer of Dashboard
DashboardTimeOrZero(c) ==
    IF DashboardParseDate(DateString(c)) = Null THEN 0
    ELSE DashboardParseDate(DateString(c)).time.num

\* array.sort((a, b) => dateB - dateA) on these times: descending and stable
SortCasesDesc(cs) ==
    LET keyed == SortByKey([i \in 1..Len(cs) |-> [key |-> 0 - TimeOrZero(cs[i]), item |-> cs[i]]])
    IN  [i \in 1..Len(cs) |-> keyed[i].item]

DashboardSortDesc(cs) ==
    LET keyed == SortByKey([i \in 1..Len(cs) |->
                               [key |-> 0 - DashboardTimeOrZero(cs[i]), item |-> cs[i]]])
    IN  [i \in 1..Len(cs) |-> keyed[i].item]

DashboardFeed(store) ==
    LET ids == Entries(store)
    IN  DashboardSortDesc([i \in 1..Len(ids) |-> DashboardCase(ids[i], store[ids[i]])])

\* what the three ledger views derive for one stored document
LedgerViewsOf(id, caseData) ==
    {BillListCase(id, caseData), BillAnalyticsCase(id, caseData), DashboardCase(id, caseData)}

----------------------------------------------------------------------------
(* BillAnalytics: the time window, the statistics and the chart *)

TimeFilters == {"today", "week", "month", "year", "all"}

\* const now = new Date(): the day of the render, a Wednesday
Now == DateAt(DaysFromCivil(2024, 6, 12))

\* date-fns startOfWeek and endOfWeek with their default, a week from Sunday
startOfWeek(date) == DateAt(date.time.num - GetDay(date))

endOfWeek(date) == DateAt(date.time.num - GetDay(date) + 6)

\* a faulty test whose month window compares the month alone, not the year
InWindow_MonthOfAnyYear(caseDate, window, now) ==
    CASE window = "today" -> caseDate.time.num = now.time.num
      [] window = "week" ->
            /\ caseDate.time.num >= startOfWeek(now).time.num
            /\ caseDate.time.num <= endOfWeek(now).time.num
      [] window = "month" -> GetMonth(caseDate) = GetMonth(now)
      [] window = "year" -> GetFullYear(caseDate) = GetFullYear(now)
      [] OTHER -> FALSE

\* the test of the filter callback for a case date that was parsed
InWindow(caseDate, window, now) ==
    CASE window = "today" -> caseDate.time.num = now.time.num
      [] window = "week" ->
            /\ caseDate.time.num >= startOfWeek(now).time.num
            /\ caseDate.time.num <= endOfWeek(now).time.num
      [] window = "month" ->
            /\ GetFullYear(caseDate) = GetFullYear(now)
            /\ GetMonth(caseDate) = GetMonth(now)
      [] window = "year" -> GetFullYear(caseDate) = GetFullYear(now)
      [] OTHER -> FALSE

\* a faulty filter that keeps the cases whose date cannot be parsed
CasesForPeriod_KeepsUndated(cs, window, now) ==
    IF window = "all" THEN cs
    ELSE SelectSeq(cs, LAMBDA c :
            \/ parseDate(DateString(c)) = Null
            \/ InWindow(parseDate(DateString(c)), window, now))

\* casesForPeriod before it is sorted: allCases itself for 'all', else a new array
CasesForPeriod(cs, window, now) ==
    IF window = "all" THEN cs
    ELSE SelectSeq(cs, LAMBDA c :
            /\ parseDate(DateString(c)) # Null
            /\ InWindow(parseDate(DateString(c)), window, now))

RECURSIVE SumOrZero(_, _)
\* cs.reduce((sum, c) => sum + (c[field] || 0), 0)
SumOrZero(cs, field) ==
    IF cs = <<>> THEN Num(0)
    ELSE Plus(SumOrZero(SubSeq(cs, 1, Len(cs) - 1), field),
              AmountOrZero(Field(cs[Len(cs)], field)))

\* the stats of filteredData
StatsOf(casesForPeriod) ==
    [totalBilled |-> SumOrZero(casesForPeriod, "totalAmount"),
     totalCases |-> Len(casesForPeriod),
     totalPaymentsReceived |-> SumOrZero(casesForPeriod, "paidAmount"),
     totalRemainingAmount |->
        Minus(SumOrZero(casesForPeriod, "totalAmount"), SumOrZero(casesForPeriod, "paidAmount"))]

\* filteredData: the stats are taken before casesForPeriod.sort(...)
filteredData(cs, window, now) ==
    [filteredCases |-> SortCasesDesc(CasesForPeriod(cs, window, now)),
     stats |-> StatsOf(CasesForPeriod(cs, window, now))]

\* allCases after filteredData has run: casesForPeriod.sort(...) sorts in place,
\* and for 'all' casesForPeriod is the allCases array itself
AllCasesAfterRender(cs, window) ==
    IF window = "all" THEN SortCasesDesc(cs) ELSE cs

\* the format pattern of the bucket key
KeyPattern(window) ==
    CASE window = "today" -> "HH:00"
      [] window = "week" -> "EEE"
      [] window = "month" -> "dd MMM"
      [] window = "year" -> "MMM"
      [] OTHER -> "MMM yyyy"

RECURSIVE DataMap(_, _)
\* dataMap after the forEach, as the list of its entries in insertion order; a
\* case without a date is skipped, the first date of a key is kept for sorting
DataMap(filteredCases, window) ==
    IF filteredCases = <<>> THEN <<>>
    ELSE LET entries == DataMap(SubSeq(filteredCases, 1, Len(filteredCases) - 1), window)
             c == filteredCases[Len(filteredCases)]
             caseDate == parseDate(DateString(c))
             key == Format(caseDate, KeyPattern(window))
         IN  IF caseDate = Null THEN entries
             ELSE IF \E i \in 1..Len(entries) : entries[i].name = key
             THEN [i \in 1..Len(entries) |->
                     IF entries[i].name = key
                     THEN [name |-> key,
                           billed |-> Plus(entries[i].billed,
                                           AmountOrZero(Field(c, "totalAmount"))),
                           paid |-> Plus(entries[i].paid, AmountOrZero(Field(c, "paidAmount"))),
                           dateForSort |-> entries[i].dateForSort]
                     ELSE entries[i]]
             ELSE Append(entries,
                     [name |-> key,
                      billed |-> Plus(Num(0), AmountOrZero(Field(c, "totalAmount"))),
                      paid |-> Plus(Num(0), AmountOrZero(Field(c, "paidAmount"))),
                      dateForSort |-> caseDate])

dayOrder == <<"Mon", "Tue", "Wed", "Thu", "Fri", "Sat", "Sun">>

monthOrder == MonthName

\* dataArray.sort(...) by a key computed from each entry
SortEntries(entries, keys) ==
    LET keyed == SortByKey([i \in 1..Len(entries) |-> [key |-> keys[i], item |-> entries[i]]])
    IN  [i \in 1..Len(entries) |-> keyed[i].item]

\* chartData: the entries sorted by dateForSort, then for 'week' by dayOrder and
\* for 'year' by monthOrder
chartData(filteredCases, window) ==
    LET entries == DataMap(filteredCases, window)
        byDate == SortEntries(entries, [i \in 1..Len(entries) |-> entries[i].dateForSort.time.num])
    IN  CASE window = "week" ->
                SortEntries(byDate, [i \in 1..Len(byDate) |-> IndexOf(dayOrder, byDate[i].name)])
          [] window = "year" ->
                SortEntries(byDate, [i \in 1..Len(byDate) |-> IndexOf(monthOrder, byDate[i].name)])
          [] OTHER -> byDate

----------------------------------------------------------------------------
(* Dashboard: the statistics and the chart of the last six months *)

\* the payments of all cases, in order
RECURSIVE AllPayments(_)
AllPayments(casesData) ==
    IF casesData = <<>> THEN <<>>
    ELSE AllPayments(SubSeq(casesData, 1, Len(casesData) - 1))
            \o (IF Has(casesData[Len(casesData)], "payments")
                THEN casesData[Len(casesData)].payments ELSE <<>>)

\* date && date.getMonth() === currentMonth && date.getFullYear() === currentYear
InCurrentMonth(date, now) ==
    /\ date # Null
    /\ GetMonth(date) = GetMonth(now)
    /\ GetFullYear(date) = GetFullYear(now)

calculateStats(casesData, now) ==
    LET thisMonthCases ==
            SelectSeq(casesData,
                      LAMBDA c : InCurrentMonth(DashboardParseDate(DateString(c)), now))
        thisMonthPayments ==
            SelectSeq(AllPayments(casesData),
                      LAMBDA q : InCurrentMonth(DashboardParseDate(DateString(q)), now))
    IN  [totalCases |-> Len(casesData),
         totalAmount |-> SumOrZero(casesData, "totalAmount"),
         thisMonthCases |-> Len(thisMonthCases),
         thisMonthAmount |-> SumOrZero(thisMonthCases, "totalAmount"),
         totalPaymentsReceived |-> SumPayments(AllPayments(casesData)),
         thisMonthPaymentsReceived |-> SumPayments(thisMonthPayments)]

RECURSIVE MonthlyData(_)
\* monthlyData after the forEach, as the list of its entries; monthNumber orders
\* the entries as their keys YYYY-MM sort
MonthlyData(cs) ==
    IF cs = <<>> THEN <<>>
    ELSE LET entries == MonthlyData(SubSeq(cs, 1, Len(cs) - 1))
             c == cs[Len(cs)]
             date == DashboardParseDate(DateString(c))
             monthNumber == GetFullYear(date) * 12 + GetMonth(date)
             monthName == Format(date, "MMM yyyy")
         IN  IF date = Null THEN entries
             ELSE IF \E i \in 1..Len(entries) : entries[i].monthNumber = monthNumber
             THEN [i \in 1..Len(entries) |->
                     IF entries[i].monthNumber = monthNumber
                     THEN [monthNumber |-> monthNumber,
                           month |-> monthName,
                           amount |-> Plus(entries[i].amount,
                                           AmountOrZero(Field(c, "totalAmount"))),
                           cases |-> entries[i].cases + 1]
                     ELSE entries[i]]
             ELSE Append(entries,
                     [monthNumber |-> monthNumber,
                      month |-> monthName,
                      amount |-> Plus(Num(0), AmountOrZero(Field(c, "totalAmount"))),
                      cases |-> 1])

\* the months shown by the dashboard chart
ChartMonths == 6

\* getChartData: Object.keys(monthlyData).sort().slice(-6).map(key => monthlyData[key])
getChartData(cs) ==
    LET entries == MonthlyData(cs)
        sorted == SortEntries(entries, [i \in 1..Len(entries) |-> entries[i].monthNumber])
        from == IF Len(sorted) > ChartMonths THEN Len(sorted) - ChartMonths + 1 ELSE 1
    IN  [i \in 1..(Len(sorted) - from + 1) |->
            [month |-> sorted[from + i - 1].month,
             amount |-> sorted[from + i - 1].amount,
             cases |-> sorted[from + i - 1].cases]]

\* Every view's onValue callback runs on each change of the collection; the render
\* of BillAnalytics that follows runs filteredData with the window it shows.
Feed(store) ==
    [v \in Views |->
        CASE IsBillList(v) -> BillListFeed(store)
          [] v = "BillAnalytics" -> AllCasesAfterRender(BillAnalyticsFeed(store), timeFilter)
          [] v = "Dashboard" -> DashboardFeed(store)
          [] OTHER -> SearchCasesFeed(store)]

----------------------------------------------------------------------------
(* CaseEntryForm: createCase *)

\* a Date object, known by what toISOString() returns for it
DateOf(iso) == [iso |-> iso]

ToISOString(d) == d.iso

Particular(type, amount) == [type |-> type, amount |-> amount]

FormData(bill, caseNo, descr, date, particulars) ==
    [billNumber |-> bill, caseNumber |-> caseNo, caseDescription |-> descr,
     date |-> date, particulars |-> particulars]

\* a faulty particularSchema, with amount min(0) in place of min(0.01)
particularSchema_MinZero(p) ==
    /\ p.type # ""
    /\ Has(p.amount, "num")
    /\ p.amount.num >= 0

\* particularSchema: type min(1), amount a number (NaN is refused) of at least 0.01
particularSchema(p) ==
    /\ p.type # ""
    /\ Has(p.amount, "num")
    /\ p.amount.num * 100 >= 1

\* caseSchema: the fields of the form data that fail
caseSchema(data) ==
    {f \in {"billNumber", "caseNumber", "caseDescription"} : data[f] = ""}
    \cup (IF data.date = Undefined THEN {"date"} ELSE {})
    \cup (IF \/ Len(data.particulars) < 1
             \/ \E i \in 1..Len(data.particulars) : ~particularSchema(data.particulars[i])
          THEN {"particulars"} ELSE {})

\* the document onSubmit writes: the form data, the date as a string, the total
\* and the creation time (a null appearanceDate is not stored)
CaseDataOf(data) ==
    [billNumber |-> data.billNumber,
     caseNumber |-> data.caseNumber,
     caseDescription |-> data.caseDescription,
     date |-> ToISOString(data.date),
     totalAmount |-> SumParticulars(data.particulars),
     createdAt |-> "2024-06-10T09:00:00.000Z",
     particulars |-> data.particulars]

NewCaseRef == IdOrder[pushed + 1]

ListViewsUnchanged ==
    UNCHANGED <<edits, selectedCase, isEditing, editFormData, isUpdating, pending,
                isAddingPayment, timeFilter>>

\* form.handleSubmit(onSubmit): the resolver first; onSubmit runs on valid data only.
\* The write either succeeds, or fails and is reported.
handleSubmit(data) ==
    IF caseSchema(data) # {}
    THEN /\ formErrors' = caseSchema(data)
         /\ NoToast /\ UNCHANGED <<cases, pushed, writes, edits, allCases>>
         /\ ListViewsUnchanged
    ELSE /\ pushed < MaxCases
         /\ writes < MaxWrites
         /\ formErrors' = {}
         /\ writes' = writes + 1
         /\ ListViewsUnchanged
         /\ \/ /\ cases' = StoreSet(cases, NewCaseRef, CaseDataOf(data))
               /\ pushed' = pushed + 1
               /\ allCases' = Feed(cases')
               /\ toast' = "Case entry saved successfully!"
            \/ /\ toast' = "Failed to save case entry"
               /\ UNCHANGED <<cases, pushed, allCases>>

Today == DateOf("2024-06-10T00:00:00.000Z")

\* The entries typed into the form: two complete ones, and entries with a defect.
ParticularsEntered ==
    { <<Particular("Filing", Num(2))>>,
      <<Particular("Filing", Num(2)), Particular("Xerox Charges", Num(1))>>,
      <<>>,
      <<Particular("Filing", Num(0))>>,
      <<Particular("Filing", NaN)>>,
      <<Particular("Filing", Num(0 - 1))>>,
      <<Particular("", Num(2))>>,
      <<Particular("Filing", Num(2)), Particular("Filing", Num(0))>> }

CreateInputs ==
    { FormData(b, c, d, dt, ps) :
        b \in {"", "B1"}, c \in {"", "C1"}, d \in {"", "D1"},
        dt \in {Undefined, Today}, ps \in ParticularsEntered }

\* the complete entries among them
CreateSeeds ==
    { FormData("B1", "C1", "D1", Today, ps) :
        ps \in { <<Particular("Filing", Num(2))>>,
                 <<Particular("Filing", Num(2)), Particular("Xerox Charges", Num(1))>> } }

----------------------------------------------------------------------------
(* The list views: selection and the edit form (BillList and SearchCases) *)

\* BillList: a click on a list item; the list is behind the modal dialog while
\* a case is selected.  SearchCases: handleCaseSelect, offered in SEARCH mode.
SelectCase(v, i) ==
    /\ i \in 1..Len(allCases[v])
    /\ IF IsBillList(v) THEN selectedCase[v] = Null ELSE ~isEditing[v]
    /\ selectedCase' = [selectedCase EXCEPT ![v] = allCases[v][i]]
    /\ NoToast /\ UNCHANGED <<cases, pushed, writes, edits, allCases, isEditing, editFormData,
                   isUpdating, pending, isAddingPayment, formErrors, timeFilter>>

\* BillList.closeDialog
closeDialog(v) ==
    /\ IsBillList(v)
    /\ selectedCase[v] # Null
    /\ selectedCase' = [selectedCase EXCEPT ![v] = Null]
    /\ isEditing' = [isEditing EXCEPT ![v] = FALSE]
    /\ editFormData' = [editFormData EXCEPT ![v] = Null]
    /\ isAddingPayment' = [isAddingPayment EXCEPT ![v] = FALSE]
    /\ NoToast /\ UNCHANGED <<cases, pushed, writes, edits, allCases, isUpdating, pending,
                   formErrors, timeFilter>>

\* the Edit button is in the read-only detail view
EditOffered(v) ==
    /\ selectedCase[v] # Null
    /\ ~isEditing[v]
    /\ ~isAddingPayment[v]

\* handleEdit / handleEditClick
handleEdit(v) ==
    /\ EditOffered(v)
    /\ editFormData' = [editFormData EXCEPT ![v] = JsonCopy(selectedCase[v])]
    /\ isEditing' = [isEditing EXCEPT ![v] = TRUE]
    /\ NoToast /\ UNCHANGED <<cases, pushed, writes, edits, allCases, selectedCase, isUpdating,
                   pending, isAddingPayment, formErrors, timeFilter>>

\* handleCancelEdit
handleCancelEdit(v) ==
    /\ isEditing[v]
    /\ isEditing' = [isEditing EXCEPT ![v] = FALSE]
    /\ editFormData' = [editFormData EXCEPT ![v] = Null]
    /\ NoToast /\ UNCHANGED <<cases, pushed, writes, edits, allCases, selectedCase, isUpdating,
                   pending, isAddingPayment, formErrors, timeFilter>>

FormShown(v) == isEditing[v] /\ editFormData[v] # Null

\* the particulars the edit form lists
FormIndexes(v) ==
    IF editFormData[v] = Null THEN {} ELSE 1..Len(editFormData[v].particulars)

SetForm(v, form) ==
    /\ edits < MaxEdits
    /\ edits' = edits + 1
    /\ editFormData' = [editFormData EXCEPT ![v] = form]
    /\ NoToast /\ UNCHANGED <<cases, pushed, writes, allCases, selectedCase, isEditing, isUpdating,
                   pending, isAddingPayment, formErrors, timeFilter>>

\* what the user types into the identifier inputs and the amount inputs
FormChanges == {<<"billNumber", "B2">>}

AmountsTyped == {"", "-1"}

TypesSelected == {"Other"}

\* handleFormChange: { ...prev, [name]: value }
handleFormChange(v, name, value) ==
    /\ FormShown(v)
    /\ SetForm(v, (name :> value) @@ editFormData[v])

\* handleParticularChange on the amount input: the raw string is kept
handleParticularChange(v, index, value) ==
    /\ FormShown(v)
    /\ index \in 1..Len(editFormData[v].particulars)
    /\ SetForm(v, [editFormData[v] EXCEPT !.particulars[index] = ("amount" :> Str(value)) @@ @])

\* a faulty handleParticularTypeSelect on a form that shares its particulars with
\* the selected case (an edit form opened without the deep copy): the assignment
\* updatedParticulars[index].type = type reaches the selected case
handleParticularTypeSelect_SharedParticulars(v, index, type) ==
    /\ FormShown(v)
    /\ index \in 1..Len(editFormData[v].particulars)
    /\ edits < MaxEdits
    /\ edits' = edits + 1
    /\ editFormData' = [editFormData EXCEPT ![v].particulars[index] =
            (IF type # "Other" THEN ("customType" :> "") ELSE EmptyObject)
                @@ ("type" :> type) @@ @]
    /\ selectedCase' = [selectedCase EXCEPT ![v] =
            IF index <= Len(@.particulars)
            THEN [@ EXCEPT !.particulars[index] = ("type" :> type) @@ @]
            ELSE @]
    /\ NoToast /\ UNCHANGED <<cases, pushed, writes, allCases, isEditing, isUpdating,
                   pending, isAddingPayment, formErrors, timeFilter>>

\* handleParticularTypeSelect: the type, and customType '' unless the type is 'Other'
handleParticularTypeSelect(v, index, type) ==
    /\ FormShown(v)
    /\ index \in 1..Len(editFormData[v].particulars)
    /\ SetForm(v, [editFormData[v] EXCEPT !.particulars[index] =
            (IF type # "Other" THEN ("customType" :> "") ELSE EmptyObject)
                @@ ("type" :> type) @@ @])

NewParticular == [type |-> "", amount |-> Str(""), customType |-> "", appearanceDate |-> ""]

\* handleAddParticular
handleAddParticular(v) ==
    /\ FormShown(v)
    /\ SetForm(v, [editFormData[v] EXCEPT !.particulars = Append(@, NewParticular)])

\* handleRemoveParticular: particulars.filter((_, i) => i !== index)
handleRemoveParticular(v, index) ==
    /\ FormShown(v)
    /\ index \in 1..Len(editFormData[v].particulars)
    /\ SetForm(v, [editFormData[v] EXCEPT !.particulars =
            [j \in 1..(Len(@) - 1) |-> IF j < index THEN @[j] ELSE @[j + 1]]])

----------------------------------------------------------------------------
(* updateCaseDetails: handleUpdateCase *)

\* editFormData.particulars.map(p => ({ ...p, amount: Number(p.amount || 0) }))
SanitizedParticulars(form) ==
    [i \in 1..Len(form.particulars) |->
        ("amount" :> SanitizeAmount(form.particulars[i].amount)) @@ form.particulars[i]]

\* sanitizedParticulars.reduce((sum, p) => sum + p.amount, 0)
NewTotalAmount(form) == SumPayments(SanitizedParticulars(form))

\* a faulty dataToSave that keeps the form's totalAmount
BillListDataToSave_StaleTotal(form) ==
    Without(("particulars" :> SanitizedParticulars(form)) @@ form,
            {"id", "paidAmount", "remainingAmount"})

\* BillList: the form with the sanitized particulars and the new total, without
\* id, paidAmount and remainingAmount.  The form's payments stay in it.
BillListDataToSave(form) ==
    Without(("particulars" :> SanitizedParticulars(form))
                @@ ("totalAmount" :> NewTotalAmount(form)) @@ form,
            {"id", "paidAmount", "remainingAmount"})

\* a faulty dataToSave of SearchCases, without the delete of id
SearchCasesDataToSave_KeepsId(form) ==
    ("particulars" :> SanitizedParticulars(form))
        @@ ("totalAmount" :> NewTotalAmount(form)) @@ form

\* SearchCases: the same, without id only.
SearchCasesDataToSave(form) ==
    Without(("particulars" :> SanitizedParticulars(form))
                @@ ("totalAmount" :> NewTotalAmount(form)) @@ form,
            {"id"})

DataToSave(v, form) ==
    IF IsBillList(v) THEN BillListDataToSave(form) ELSE SearchCasesDataToSave(form)

\* a faulty handleUpdateCase behind a Save button that is not disabled while
\* isUpdating
handleUpdateCase_NotDisabled(v) ==
    /\ isEditing[v]
    /\ editFormData[v] # Null
    /\ IF Has(NewTotalAmount(editFormData[v]), "nan")
       THEN /\ toast' = "Failed to update case."
            /\ UNCHANGED <<cases, pushed, writes, edits, allCases, selectedCase, isEditing,
                           editFormData, isUpdating, pending, isAddingPayment, formErrors,
                           timeFilter>>
       ELSE /\ writes < MaxWrites
            /\ writes' = writes + 1
            /\ isUpdating' = [isUpdating EXCEPT ![v] = TRUE]
            /\ pending' = [pending EXCEPT ![v] =
                    [kind |-> "update", id |-> editFormData[v].id, form |-> editFormData[v],
                     data |-> DataToSave(v, editFormData[v])]]
            /\ NoToast
            /\ UNCHANGED <<cases, pushed, edits, allCases, selectedCase, isEditing,
                           editFormData, isAddingPayment, formErrors, timeFilter>>

\* handleUpdateCase up to its await: the Save button is in the edit form and is
\* disabled while isUpdating.  A total that is NaN is refused by update() at once:
\* catch and finally run.
handleUpdateCase(v) ==
    /\ isEditing[v]
    /\ editFormData[v] # Null
    /\ ~isUpdating[v]
    /\ IF Has(NewTotalAmount(editFormData[v]), "nan")
       THEN /\ toast' = "Failed to update case."
            /\ UNCHANGED <<cases, pushed, writes, edits, allCases, selectedCase, isEditing,
                           editFormData, isUpdating, pending, isAddingPayment, formErrors,
                           timeFilter>>
       ELSE /\ writes < MaxWrites
            /\ writes' = writes + 1
            /\ isUpdating' = [isUpdating EXCEPT ![v] = TRUE]
            /\ pending' = [pending EXCEPT ![v] =
                    [kind |-> "update", id |-> editFormData[v].id, form |-> editFormData[v],
                     data |-> DataToSave(v, editFormData[v])]]
            /\ NoToast
            /\ UNCHANGED <<cases, pushed, edits, allCases, selectedCase, isEditing,
                           editFormData, isAddingPayment, formErrors, timeFilter>>

\* BillList: setSelectedCase(prev => prev ? { ...prev, ...dataToSave, totalAmount } : null)
BillListSelectedAfterUpdate(prev, w) ==
    IF prev = Null THEN Null
    ELSE ("totalAmount" :> NewTotalAmount(w.form)) @@ w.data @@ prev

\* SearchCases: setSelectedCase({ ...editFormData, particulars, totalAmount })
SearchCasesSelectedAfterUpdate(prev, w) ==
    ("particulars" :> SanitizedParticulars(w.form))
        @@ ("totalAmount" :> NewTotalAmount(w.form)) @@ w.form

SelectedAfterUpdate(v, prev, w) ==
    IF IsBillList(v) THEN BillListSelectedAfterUpdate(prev, w)
    ELSE SearchCasesSelectedAfterUpdate(prev, w)

\* the update() of handleUpdateCase resolves: the store has merged the fields, the
\* feed has run, and the handler continues after its await
UpdateResolved(v) ==
    /\ pending[v] # Null
    /\ pending[v].kind = "update"
    /\ cases' = StoreUpdate(cases, pending[v].id, pending[v].data)
    /\ allCases' = Feed(cases')
    /\ toast' = "Case updated successfully!"
    /\ selectedCase' = [selectedCase EXCEPT ![v] = SelectedAfterUpdate(v, @, pending[v])]
    /\ isEditing' = [isEditing EXCEPT ![v] = FALSE]
    /\ editFormData' = [editFormData EXCEPT ![v] = Null]
    /\ isUpdating' = [isUpdating EXCEPT ![v] = FALSE]
    /\ pending' = [pending EXCEPT ![v] = Null]
    /\ UNCHANGED <<pushed, writes, edits, isAddingPayment, formErrors, timeFilter>>

\* the update() rejects: catch and finally
UpdateRejected(v) ==
    /\ pending[v] # Null
    /\ pending[v].kind = "update"
    /\ toast' = (IF IsBillList(v) THEN "Failed to update case."
                 ELSE "An error occurred while saving.")
    /\ isUpdating' = [isUpdating EXCEPT ![v] = FALSE]
    /\ pending' = [pending EXCEPT ![v] = Null]
    /\ UNCHANGED <<cases, pushed, writes, edits, allCases, selectedCase, isEditing, editFormData,
                   isAddingPayment, formErrors, timeFilter>>

----------------------------------------------------------------------------
(* recordPayment: BillList.handleSavePayment *)

\* handleAddPaymentClick: the Add Payment button is in the read-only detail view
handleAddPaymentClick(v) ==
    /\ IsBillList(v)
    /\ selectedCase[v] # Null
    /\ ~isEditing[v]
    /\ ~isAddingPayment[v]
    /\ isAddingPayment' = [isAddingPayment EXCEPT ![v] = TRUE]
    /\ NoToast /\ UNCHANGED <<cases, pushed, writes, edits, allCases, selectedCase, isEditing,
                   editFormData, isUpdating, pending, formErrors, timeFilter>>

\* the Cancel button of the add-payment form
cancelAddPayment(v) ==
    /\ IsBillList(v)
    /\ selectedCase[v] # Null
    /\ ~isEditing[v]
    /\ isAddingPayment[v]
    /\ isAddingPayment' = [isAddingPayment EXCEPT ![v] = FALSE]
    /\ NoToast /\ UNCHANGED <<cases, pushed, writes, edits, allCases, selectedCase, isEditing,
                   editFormData, isUpdating, pending, formErrors, timeFilter>>

\* what the add-payment form holds when Record Payment is pressed
PaymentAmountsTyped == {"", "0", "-1", "2"}

PaymentMethodsChosen == {"", "Cash"}

PaymentDatesChosen == {"", "2024-06-12"}

\* the first check: a field of the form is empty
PaymentDetailsMissing(sel, newPaymentAmount, newPaymentMethod, newPaymentDate) ==
    \/ sel = Null
    \/ newPaymentAmount = ""
    \/ newPaymentMethod = ""
    \/ newPaymentDate = ""

\* a faulty second check, which lets an amount of 0 through: isNaN(amount) || amount < 0
PaymentAmountInvalid_ZeroPasses(newPaymentAmount) ==
    LET amount == NumberOfString(newPaymentAmount)
    IN  Has(amount, "nan") \/ amount.num < 0

\* the second check: isNaN(amount) || amount <= 0
PaymentAmountInvalid(newPaymentAmount) ==
    LET amount == NumberOfString(newPaymentAmount)
    IN  Has(amount, "nan") \/ amount.num <= 0

UpdatedPayments(sel, newPaymentAmount, newPaymentMethod, newPaymentDate) ==
    Append(IF Has(sel, "payments") THEN sel.payments ELSE <<>>,
           [amount |-> NumberOfString(newPaymentAmount),
            method |-> newPaymentMethod,
            date |-> newPaymentDate])

\* the three fields the payment write carries
PaymentData(sel, updatedPayments) ==
    [payments |-> updatedPayments,
     paidAmount |-> SumPayments(updatedPayments),
     remainingAmount |-> Minus(Field(sel, "totalAmount"), SumPayments(updatedPayments))]

PaymentFormUnchanged ==
    UNCHANGED <<cases, pushed, writes, edits, allCases, selectedCase, isEditing, editFormData,
                isUpdating, pending, isAddingPayment, formErrors, timeFilter>>

\* handleSavePayment up to its await.  A selected case without totalAmount makes
\* remainingAmount NaN, which update() refuses at once: catch and finally run.
handleSavePayment(v, newPaymentAmount, newPaymentMethod, newPaymentDate) ==
    /\ IsBillList(v)
    /\ selectedCase[v] # Null
    /\ ~isEditing[v]
    /\ isAddingPayment[v]
    /\ ~isUpdating[v]
    /\ LET sel == selectedCase[v]
           updatedPayments ==
               UpdatedPayments(sel, newPaymentAmount, newPaymentMethod, newPaymentDate)
       IN  IF PaymentDetailsMissing(sel, newPaymentAmount, newPaymentMethod, newPaymentDate)
           THEN /\ toast' = "Please fill all payment details."
                /\ PaymentFormUnchanged
           ELSE IF PaymentAmountInvalid(newPaymentAmount)
           THEN /\ toast' = "Please enter a valid amount."
                /\ PaymentFormUnchanged
           ELSE IF Has(PaymentData(sel, updatedPayments).remainingAmount, "nan")
           THEN /\ toast' = "Failed to add payment."
                /\ PaymentFormUnchanged
           ELSE /\ writes < MaxWrites
                /\ writes' = writes + 1
                /\ isUpdating' = [isUpdating EXCEPT ![v] = TRUE]
                /\ pending' = [pending EXCEPT ![v] =
                        [kind |-> "payment", id |-> sel.id,
                         data |-> PaymentData(sel, updatedPayments)]]
                /\ NoToast
                /\ UNCHANGED <<cases, pushed, edits, allCases, selectedCase, isEditing,
                               editFormData, isAddingPayment, formErrors, timeFilter>>

\* setSelectedCase(prev => prev ? { ...prev, payments, paidAmount, remainingAmount } : null)
SelectedAfterPayment(prev, w) == IF prev = Null THEN Null ELSE w.data @@ prev

\* the update() of handleSavePayment resolves
PaymentResolved(v) ==
    /\ pending[v] # Null
    /\ pending[v].kind = "payment"
    /\ cases' = StoreUpdate(cases, pending[v].id, pending[v].data)
    /\ allCases' = Feed(cases')
    /\ toast' = "Payment added successfully!"
    /\ selectedCase' = [selectedCase EXCEPT ![v] = SelectedAfterPayment(@, pending[v])]
    /\ isAddingPayment' = [isAddingPayment EXCEPT ![v] = FALSE]
    /\ isUpdating' = [isUpdating EXCEPT ![v] = FALSE]
    /\ pending' = [pending EXCEPT ![v] = Null]
    /\ UNCHANGED <<pushed, writes, edits, isEditing, editFormData, formErrors, timeFilter>>

\* a faulty catch branch that closes the add-payment form as the success path does
PaymentRejected_ClosesForm(v) ==
    /\ pending[v] # Null
    /\ pending[v].kind = "payment"
    /\ toast' = "Failed to add payment."
    /\ isAddingPayment' = [isAddingPayment EXCEPT ![v] = FALSE]
    /\ isUpdating' = [isUpdating EXCEPT ![v] = FALSE]
    /\ pending' = [pending EXCEPT ![v] = Null]
    /\ UNCHANGED <<cases, pushed, writes, edits, allCases, selectedCase, isEditing, editFormData,
                   formErrors, timeFilter>>

\* the update() rejects: catch and finally
PaymentRejected(v) ==
    /\ pending[v] # Null
    /\ pending[v].kind = "payment"
    /\ toast' = "Failed to add payment."
    /\ isUpdating' = [isUpdating EXCEPT ![v] = FALSE]
    /\ pending' = [pending EXCEPT ![v] = Null]
    /\ UNCHANGED <<cases, pushed, writes, edits, allCases, selectedCase, isEditing, editFormData,
                   isAddingPayment, formErrors, timeFilter>>

----------------------------------------------------------------------------
(* The system *)

Init ==
    /\ cases = EmptyObject
    /\ pushed = 0
    /\ writes = 0
    /\ edits = 0
    /\ allCases = [v \in Views |-> <<>>]
    /\ selectedCase = [v \in Views |-> Null]
    /\ isEditing = [v \in Views |-> FALSE]
    /\ editFormData = [v \in Views |-> Null]
    /\ isUpdating = [v \in Views |-> FALSE]
    /\ pending = [v \in Views |-> Null]
    /\ isAddingPayment = [v \in Views |-> FALSE]
    /\ toast = ""
    /\ formErrors = {}
    /\ timeFilter = "month"

CreateCase == \E data \in CreateSeeds : handleSubmit(data)

Select(V) == \E v \in V : \E i \in 1..Len(IdOrder) : SelectCase(v, i)

CloseDialog(V) == \E v \in V : closeDialog(v)

Edit(V) == \E v \in V : handleEdit(v)

CancelEdit(V) == \E v \in V : handleCancelEdit(v)

FormChange(V) == \E v \in V : \E c \in FormChanges : handleFormChange(v, c[1], c[2])

ParticularChange(V) ==
    \E v \in V : \E i \in FormIndexes(v) : \E a \in AmountsTyped :
        handleParticularChange(v, i, a)

ParticularTypeSelect(V) ==
    \E v \in V : \E i \in FormIndexes(v) : \E t \in TypesSelected :
        handleParticularTypeSelect(v, i, t)

AddParticular(V) == \E v \in V : handleAddParticular(v)

RemoveParticular(V) == \E v \in V : \E i \in FormIndexes(v) : handleRemoveParticular(v, i)

UpdateCase(V) == \E v \in V : handleUpdateCase(v)

UpdateSucceeds(V) == \E v \in V : UpdateResolved(v)

UpdateFails(V) == \E v \in V : UpdateRejected(v)

AddPaymentClick(V) == \E v \in V : handleAddPaymentClick(v)

CancelAddPayment(V) == \E v \in V : cancelAddPayment(v)

SavePayment(V) ==
    \E v \in V : \E a \in PaymentAmountsTyped :
        \E m \in PaymentMethodsChosen : \E d \in PaymentDatesChosen :
            handleSavePayment(v, a, m, d)

PaymentSucceeds(V) == \E v \in V : PaymentResolved(v)

PaymentFails(V) == \E v \in V : PaymentRejected(v)

\* what the users of the mounted views V can do
ViewStep(V) ==
    \/ Select(V)
    \/ CloseDialog(V)
    \/ Edit(V)
    \/ CancelEdit(V)
    \/ FormChange(V)
    \/ ParticularChange(V)
    \/ ParticularTypeSelect(V)
    \/ AddParticular(V)
    \/ RemoveParticular(V)
    \/ UpdateCase(V)
    \/ UpdateSucceeds(V)
    \/ UpdateFails(V)
    \/ AddPaymentClick(V)
    \/ CancelAddPayment(V)
    \/ SavePayment(V)
    \/ PaymentSucceeds(V)
    \/ PaymentFails(V)

\* one bill list and the search page
Pages == {"BillList", "SearchCases"}

Next == CreateCase \/ ViewStep(Pages)

Spec == Init /\ [][Next]_vars

\* the bill list open in two sessions
Sessions == {"BillList", "BillList2"}

NextSessions == CreateCase \/ ViewStep(Sessions)

SpecSessions == Init /\ [][NextSessions]_vars

\* the entry form alone, with every entry of CreateInputs
SubmitEntry == \E data \in CreateInputs : handleSubmit(data)

NextEntry == SubmitEntry

SpecEntry == Init /\ [][NextEntry]_vars

\* A case document is deleted in the database by another client (the console, a
\* script): the store loses the document and every feed runs.
RemoveCase ==
    /\ writes < MaxWrites
    /\ writes' = writes + 1
    /\ \E id \in DOMAIN cases : cases' = Without(cases, {id})
    /\ allCases' = Feed(cases')
    /\ NoToast
    /\ UNCHANGED <<pushed, edits, selectedCase, isEditing, editFormData, isUpdating, pending,
                   isAddingPayment, formErrors, timeFilter>>

NextRemoval == Next \/ RemoveCase

SpecRemoval == Init /\ [][NextRemoval]_vars

\* The collection as BillAnalytics and Dashboard may find it: three documents, with
\* dates written by this and by earlier versions of the entry form, the payments
\* of the first one well-formed, absent, or lacking an amount.
SnapshotDates ==
    {"2024-06-10T00:00:00.000Z", "2024-06-09", "2024-06-12", "2024-03-15", "15-03-2024",
     "03/04/2024", "2023-12-25", "garbage"}

Payment(amount, date) == [amount |-> amount, method |-> "Cash", date |-> date]

PaymentsFound ==
    { <<>>,
      <<Payment(Num(1), "2024-06-12")>>,
      <<Without(Payment(Num(1), "2024-06-12"), {"amount"})>>,
      <<Payment(Str("abc"), "2024-06-12")>> }

\* a document as createCase and recordPayment leave it
StoredCase(date, amount, payments) ==
    LET created == [billNumber |-> "B1", caseNumber |-> "C1", caseDescription |-> "D1",
                    date |-> date, totalAmount |-> Num(amount),
                    createdAt |-> "2024-06-10T09:00:00.000Z",
                    particulars |-> <<Particular("Filing", Num(amount))>>]
    IN  IF payments = <<>> THEN created
        ELSE [payments |-> payments,
              paidAmount |-> SumPayments(payments),
              remainingAmount |-> Minus(Num(amount), SumPayments(payments))] @@ created

Snapshots ==
    { ("c1" :> StoredCase(d1, 2, p1)) @@ ("c2" :> StoredCase(d2, 4, <<>>))
        @@ ("c3" :> StoredCase(d3, 8, <<Payment(Num(3), "2024-03-15")>>)) :
        d1 \in SnapshotDates, d2 \in SnapshotDates, d3 \in SnapshotDates,
        p1 \in PaymentsFound }

InitAnalytics ==
    /\ cases \in Snapshots
    /\ pushed = Cardinality(DOMAIN cases)
    /\ writes = 0
    /\ edits = 0
    /\ timeFilter = "month"
    /\ allCases = Feed(cases)
    /\ selectedCase = [v \in Views |-> Null]
    /\ isEditing = [v \in Views |-> FALSE]
    /\ editFormData = [v \in Views |-> Null]
    /\ isUpdating = [v \in Views |-> FALSE]
    /\ pending = [v \in Views |-> Null]
    /\ isAddingPayment = [v \in Views |-> FALSE]
    /\ toast = ""
    /\ formErrors = {}

\* BillAnalytics: a click on a time filter button; the render that follows runs
\* filteredData and chartData for the new window
setTimeFilter(filter) ==
    /\ filter # timeFilter
    /\ timeFilter' = filter
    /\ allCases' = [allCases EXCEPT !["BillAnalytics"] = AllCasesAfterRender(@, filter)]
    /\ NoToast
    /\ UNCHANGED <<cases, pushed, writes, edits, selectedCase, isEditing, editFormData,
                   isUpdating, pending, isAddingPayment, formErrors>>

SetTimeFilter == \E filter \in TimeFilters : setTimeFilter(filter)

NextAnalytics == SetTimeFilter

SpecAnalytics == InitAnalytics /\ [][NextAnalytics]_vars

\* what BillAnalytics shows in the current state
Filtered == filteredData(allCases["BillAnalytics"], timeFilter, Now)

Chart == chartData(Filtered.filteredCases, timeFilter)

----------------------------------------------------------------------------
(* Properties *)

StoredPayments(store, id) ==
    IF id \in DOMAIN store /\ Has(store[id], "payments") THEN store[id].payments ELSE <<>>

ParticularsOf(c) == IF Has(c, "particulars") THEN c.particulars ELSE <<>>

\* C1: every stored case document that carries paidAmount and remainingAmount
\* satisfies totalAmount = paidAmount + remainingAmount.
C1_Reconciliation ==
    \A id \in DOMAIN cases :
        (Has(cases[id], "paidAmount") /\ Has(cases[id], "remainingAmount")) =>
            /\ Has(cases[id], "totalAmount")
            /\ cases[id].totalAmount = Plus(cases[id].paidAmount, cases[id].remainingAmount)

\* C2: right after an update of the bill list has succeeded, the selected case has
\* totalAmount equal to the sum of the saved particulars' amounts and
\* remainingAmount equal to that totalAmount minus its paidAmount.
C2_SelectedAfterUpdate ==
    [][\A v \in Views :
          (IsBillList(v) /\ UpdateResolved(v) /\ selectedCase'[v] # Null) =>
              LET sel == selectedCase'[v]
                  saved == cases'[pending[v].id]
              IN  /\ sel.totalAmount = SumParticulars(ParticularsOf(saved))
                  /\ sel.remainingAmount = Minus(sel.totalAmount, sel.paidAmount)]_vars

\* C3: an update that succeeds leaves the stored payments of its case as they were
\* right before it, whatever another session has recorded during the edit session.
C3_UpdateKeepsPayments ==
    [][\A v \in Views :
          UpdateResolved(v) =>
              StoredPayments(cases', pending[v].id) = StoredPayments(cases, pending[v].id)]_vars

\* C4: a payment write that succeeds makes the stored payments the payments stored
\* right before it with exactly one payment appended at the end.
C4_PaymentAppends ==
    [][\A v \in Views :
          PaymentResolved(v) =>
              LET before == StoredPayments(cases, pending[v].id)
                  after == StoredPayments(cases', pending[v].id)
              IN  /\ Len(after) = Len(before) + 1
                  /\ SubSeq(after, 1, Len(before)) = before]_vars

\* the amounts recordPayment has to refuse: missing, not a number, or <= 0
C5_AmountRefused(a) ==
    \/ a = ""
    \/ Has(NumberOfString(a), "nan")
    \/ NumberOfString(a).num <= 0

\* C5: Record Payment pressed with the amount missing, not a number or <= 0, or with
\* the method or the date missing, issues no write and leaves the store, the
\* selected case and isUpdating unchanged; it raises one of the two error toasts.
C5_InvalidPaymentRejected ==
    [][\A v \in Views : \A a \in PaymentAmountsTyped :
          \A m \in PaymentMethodsChosen : \A d \in PaymentDatesChosen :
              (handleSavePayment(v, a, m, d) /\ (C5_AmountRefused(a) \/ m = "" \/ d = "")) =>
                  /\ UNCHANGED <<cases, writes, pending, selectedCase, isUpdating>>
                  /\ toast' \in {"Please fill all payment details.",
                                 "Please enter a valid amount."}]_vars

\* C5 witness: a Record Payment with an amount <= 0 has just been refused, in a bill
\* list that already holds a recorded payment of the selected case.
C5_Witness ==
    /\ toast = "Please enter a valid amount."
    /\ \E v \in Views :
          /\ isAddingPayment[v]
          /\ selectedCase[v] # Null
          /\ selectedCase[v].payments # <<>>

\* the entries the schema refuses: an empty identifier, no date, no particular, or a
\* particular with no type or with an amount that is no number of at least 0.01
\* (the amounts of the model are whole numbers)
C6_Defective(d) ==
    \/ d.billNumber = "" \/ d.caseNumber = "" \/ d.caseDescription = ""
    \/ d.date = Undefined
    \/ d.particulars = <<>>
    \/ \E i \in 1..Len(d.particulars) :
          \/ d.particulars[i].type = ""
          \/ ~Has(d.particulars[i].amount, "num")
          \/ d.particulars[i].amount.num <= 0

\* C6, as the code decides it: a submit of a defective entry reports validation
\* errors and writes nothing; a submit of any other entry issues the write, which
\* stores the new document under a fresh id or fails and is reported.
C6_SubmitDecided ==
    [][\A d \in CreateInputs :
          handleSubmit(d) =>
              IF C6_Defective(d)
              THEN /\ formErrors' # {}
                   /\ UNCHANGED <<cases, pushed, writes, allCases>>
              ELSE /\ formErrors' = {}
                   /\ writes' = writes + 1
                   /\ \/ /\ toast' = "Case entry saved successfully!"
                         /\ DOMAIN cases' = DOMAIN cases \cup {NewCaseRef}
                         /\ NewCaseRef \notin DOMAIN cases
                         /\ cases'[NewCaseRef].totalAmount = SumParticulars(d.particulars)
                      \/ /\ toast' = "Failed to save case entry"
                         /\ cases' = cases]_vars

\* C6 witness: an entry has been refused for its particulars after another entry
\* was stored.
C6_Witness == formErrors = {"particulars"} /\ cases # EmptyObject

\* C6 as stated: a submit is refused exactly when an identifier is empty, the
\* particulars are empty, or an amount is no number >= 0 (an amount of 0 passes).
C6_RefusedExactlyAsStated ==
    [][\A d \in CreateInputs :
          handleSubmit(d) =>
              ((formErrors' # {}) <=>
                  \/ d.billNumber = "" \/ d.caseNumber = "" \/ d.caseDescription = ""
                  \/ d.particulars = <<>>
                  \/ \E i \in 1..Len(d.particulars) :
                        \/ ~Has(d.particulars[i].amount, "num")
                        \/ d.particulars[i].amount.num < 0)]_vars

C8_UpdateOfAbsentCaseFails ==
    [][\A v \in Views :
          (/\ pending[v] # Null
           /\ pending[v].kind = "update"
           /\ ~Present(pending[v].id)
           /\ (UpdateResolved(v) \/ UpdateRejected(v))) =>
              /\ cases' = cases
              /\ toast' # "Case updated successfully!"]_vars

\* C9: the stored totalAmount of every case is >= 0 and so is every stored
\* particular amount.
C9_NonNegative ==
    \A id \in DOMAIN cases :
        /\ cases[id].totalAmount.num >= 0
        /\ \A i \in 1..Len(ParticularsOf(cases[id])) :
              ParticularsOf(cases[id])[i].amount.num >= 0

\* the payment in flight exceeds what remains of its case in the store
C10_Overpays(v) ==
    LET doc == cases[pending[v].id]
        payments == pending[v].data.payments
    IN  payments[Len(payments)].amount.num >
            Minus(doc.totalAmount, SumPayments(StoredPayments(cases, pending[v].id))).num

\* C10: a payment that exceeds the remaining amount is stored, and the
\* remainingAmount stored with it and the one each ledger view derives are the
\* negative value totalAmount - paidAmount.
C10_OverpaymentExact ==
    [][\A v \in Views :
          (PaymentResolved(v) /\ C10_Overpays(v)) =>
              LET doc == cases'[pending[v].id]
              IN  /\ doc.paidAmount = SumPayments(doc.payments)
                  /\ doc.remainingAmount = Minus(doc.totalAmount, doc.paidAmount)
                  /\ doc.remainingAmount.num < 0
                  /\ \A c \in LedgerViewsOf(pending[v].id, doc) :
                        c.remainingAmount = Minus(doc.totalAmount, doc.paidAmount)]_vars

\* every stored payment has an amount that is a number
NumericPayments ==
    \A id \in DOMAIN cases :
        \A i \in 1..Len(StoredPayments(cases, id)) :
            /\ Has(StoredPayments(cases, id)[i], "amount")
            /\ Has(StoredPayments(cases, id)[i].amount, "num")

\* C11: for every snapshot and every time window, the stats' totalBilled is the sum
\* of billed over the chart buckets and totalPaymentsReceived the sum of paid, also
\* when cases of the snapshot have a date that cannot be parsed (violated already
\* on snapshots whose payments all have a numeric amount).
C11_BucketsSumToStats ==
    NumericPayments =>
        LET filtered == Filtered
            chart == chartData(filtered.filteredCases, timeFilter)
        IN  /\ SumOrZero(chart, "billed") = filtered.stats.totalBilled
            /\ SumOrZero(chart, "paid") = filtered.stats.totalPaymentsReceived

RECURSIVE SumField(_, _)
\* the sum of a field over a list, as + adds
SumField(xs, field) ==
    IF xs = <<>> THEN Num(0)
    ELSE Plus(SumField(SubSeq(xs, 1, Len(xs) - 1), field), Field(xs[Len(xs)], field))

\* C12: for every snapshot and window, the stats' totalRemainingAmount is
\* totalBilled - totalPaymentsReceived and equals the sum of the remainingAmount
\* each filtered case derives.
C12_RemainingIsSum ==
    LET filtered == Filtered
    IN  /\ filtered.stats.totalRemainingAmount =
                Minus(filtered.stats.totalBilled, filtered.stats.totalPaymentsReceived)
        /\ filtered.stats.totalRemainingAmount =
                SumField(filtered.filteredCases, "remainingAmount")

\* the bucket key of each case of a list under a pattern, "" for a case without date
KeysOf(cs, pattern) ==
    [k \in 1..Len(cs) |->
        IF parseDate(DateString(cs[k])) = Null THEN ""
        ELSE Format(parseDate(DateString(cs[k])), pattern)]

\* the cases of a list whose key is the given one
CasesOfKey(cs, keys, name) ==
    LET at == SelectSeq([k \in 1..Len(cs) |-> k], LAMBDA k : keys[k] = name)
    IN  [n \in 1..Len(at) |-> cs[at[n]]]

\* C13: with the window 'year' the buckets come in the order Jan..Dec, each label
\* at most once, whatever the order of the cases in the snapshot, and each bucket's
\* billed and paid are the sums of totalAmount and paidAmount of the filtered cases
\* of its month.
C13_YearBuckets ==
    timeFilter = "year" =>
        LET cs == Filtered.filteredCases
            chart == chartData(cs, "year")
            keys == KeysOf(cs, "MMM")
        IN  /\ \A i, j \in 1..Len(chart) :
                  i < j =>
                      IndexOf(monthOrder, chart[i].name) < IndexOf(monthOrder, chart[j].name)
            /\ \A i \in 1..Len(chart) :
                  /\ CasesOfKey(cs, keys, chart[i].name) # <<>>
                  /\ chart[i].billed = SumField(CasesOfKey(cs, keys, chart[i].name), "totalAmount")
                  /\ chart[i].paid = SumField(CasesOfKey(cs, keys, chart[i].name), "paidAmount")
            /\ \A k \in 1..Len(cs) : \E i \in 1..Len(chart) : chart[i].name = keys[k]

\* C14: for every window the buckets come in the chronological order of the case
\* dates: a bucket all of whose cases are dated before all cases of another bucket
\* precedes it.
C14_BucketsChronological ==
    LET cs == Filtered.filteredCases
        chart == chartData(cs, timeFilter)
        keys == KeysOf(cs, KeyPattern(timeFilter))
        times == [i \in 1..Len(chart) |->
                    { TimeOrZero(cs[k]) : k \in { k \in 1..Len(cs) : keys[k] = chart[i].name } }]
    IN  \A i, j \in 1..Len(chart) :
            (\A a \in times[i] : \A b \in times[j] : a < b) => i < j

\* a list without the case of the given id
Absent(cs, id) == SelectSeq(cs, LAMBDA c : c.id # id)

\* C15: a case whose date fails normalization is in none of the windows today,
\* week, month and year of BillAnalytics and not in the month of Dashboard, and the
\* other cases are filtered, counted and bucketed as if that case were absent.
C15_UnparseableIgnored ==
    /\ timeFilter # "all" =>
          LET cs == allCases["BillAnalytics"]
              filtered == filteredData(cs, timeFilter, Now)
          IN  \A k \in 1..Len(cs) :
                  parseDate(DateString(cs[k])) = Null =>
                      LET without == filteredData(Absent(cs, cs[k].id), timeFilter, Now)
                      IN  /\ \A n \in 1..Len(filtered.filteredCases) :
                                filtered.filteredCases[n].id # cs[k].id
                          /\ without = filtered
                          /\ chartData(without.filteredCases, timeFilter)
                                = chartData(filtered.filteredCases, timeFilter)
    /\ LET ds == allCases["Dashboard"]
       IN  \A k \in 1..Len(ds) :
               DashboardParseDate(DateString(ds[k])) = Null =>
                   /\ calculateStats(Absent(ds, ds[k].id), Now).thisMonthCases
                         = calculateStats(ds, Now).thisMonthCases
                   /\ calculateStats(Absent(ds, ds[k].id), Now).thisMonthAmount
                         = calculateStats(ds, Now).thisMonthAmount
                   /\ getChartData(Absent(ds, ds[k].id)) = getChartData(ds)

\* C15 witness: the week is shown, one case of the snapshot has a date that cannot
\* be parsed, and another case is in the week.
C15_Witness ==
    /\ timeFilter = "week"
    /\ \E k \in 1..Len(allCases["BillAnalytics"]) :
          parseDate(DateString(allCases["BillAnalytics"][k])) = Null
    /\ Filtered.filteredCases # <<>>

\* the list is in descending order of the times, a case without a readable date
\* counting as dated at the epoch
DescendingFromEpoch(list, TimeOf(_)) ==
    \A i, j \in 1..Len(list) : i < j => TimeOf(list[i]) >= TimeOf(list[j])

\* new Date(c.date).getTime(), 0 for an Invalid Date
NativeTimeOrZero(c) == IF Has(GetTime(c), "nan") THEN 0 ELSE GetTime(c).num

\* C16: the filtered cases of BillAnalytics are in descending order of their
\* normalized dates, and so are the unfiltered listings (BillAnalytics with the
\* window 'all', Dashboard, the bill list), a case with an unparseable date being
\* ordered as if dated at epoch zero: the dated cases first, the others after them.
C16_ListingsDescending ==
    /\ DescendingFromEpoch(Filtered.filteredCases, TimeOrZero)
    /\ DescendingFromEpoch(allCases["Dashboard"], DashboardTimeOrZero)
    /\ DescendingFromEpoch(allCases["BillList"], NativeTimeOrZero)

\* the normalizer's result is the calendar day d of month m (1..12) of year y
ReadsAs(date, y, m, d) ==
    /\ date # Null
    /\ GetFullYear(date) = y
    /\ GetMonth(date) = m - 1
    /\ GetDate(date) = d

\* the text is DAY, MONTH, YEAR in digits between '-' or '/'
IsDayMonthYear(dateString) ==
    LET t == TextOf(dateString)
    IN  /\ t.sep \in {"-", "/"} /\ Len(t.parts) = 3 /\ t.time = ""
        /\ \A i \in 1..3 : Has(t.parts[i], "digits")
        /\ t.parts[1].digits = 2 /\ t.parts[2].digits = 2 /\ t.parts[3].digits = 4

\* what C17 states of one date string and the two normalizers' results for it
C17_Normalized(dateString, date, dashboardDate) ==
    LET t == TextOf(dateString)
    IN  IF IsISO(dateString)
        THEN /\ ReadsAs(date, t.parts[1].value, t.parts[2].value, t.parts[3].value)
             /\ ReadsAs(dashboardDate, t.parts[1].value, t.parts[2].value, t.parts[3].value)
        ELSE IF IsDayMonthYear(dateString)
        THEN /\ ReadsAs(date, t.parts[3].value, t.parts[2].value, t.parts[1].value)
             /\ ReadsAs(dashboardDate, t.parts[3].value, t.parts[2].value, t.parts[1].value)
        ELSE /\ date = Null
             /\ dashboardDate = Null

\* C17: the date normalizers of BillAnalytics and Dashboard read an ISO string, a
\* DAY-MONTH-YEAR string and a DAY/MONTH/YEAR string of the same day as the same
\* calendar date (day, month from 1..12 to 0..11, year), and make null of a string
\* that is neither ISO nor three numbers between '-' or '/'.
C17_DatesNormalized ==
    \A id \in DOMAIN cases :
        C17_Normalized(DateString(cases[id]), parseDate(DateString(cases[id])),
                       DashboardParseDate(DateString(cases[id])))

\* C18: the ledger amounts the bill list derives for each case are numbers, a
\* payment whose amount is missing or not a number counting as 0: paidAmount,
\* totalAmount and remainingAmount are never NaN and never a concatenated string.
C18_LedgerNumeric ==
    \A i \in 1..Len(allCases["BillList"]) :
        LET c == allCases["BillList"][i]
        IN  /\ Has(c.paidAmount, "num")
            /\ Has(Field(c, "totalAmount"), "num")
            /\ Has(c.remainingAmount, "num")

\* C19: a store write of createCase, updateCaseDetails or recordPayment that fails
\* is reported and not tried again, and the view stays as it was: the store and the
\* lists are unchanged, selectedCase keeps its value, and the edit form or the
\* add-payment form stays open with its data.
C19_FailedWriteKeepsView ==
    [][/\ \A v \in Views :
            (UpdateRejected(v) \/ PaymentRejected(v)) =>
                /\ toast' \in {"Failed to update case.", "An error occurred while saving.",
                                "Failed to add payment."}
                /\ writes' = writes
                /\ pending' = [pending EXCEPT ![v] = Null]
                /\ cases' = cases
                /\ allCases' = allCases
                /\ selectedCase' = selectedCase
                /\ isEditing' = isEditing
                /\ editFormData' = editFormData
                /\ isAddingPayment' = isAddingPayment
       /\ toast' = "Failed to save case entry" =>
                /\ writes' = writes + 1
                /\ cases' = cases
                /\ allCases' = allCases
                /\ selectedCase' = selectedCase
                /\ pending' = pending]_vars

\* C19 witness: an update of the bill list has just failed and its edit form is
\* still open with the change made in it.
C19_Witness ==
    /\ toast = "Failed to update case."
    /\ isEditing["BillList"]
    /\ editFormData["BillList"] # Null
    /\ edits > 0
    /\ selectedCase["BillList"] # Null
    /\ pending["BillList"] = Null

\* C20: computing the filtered cases, the stats and the buckets, for any window,
\* 'all' included, leaves the snapshot as the feed delivered it, in content and in
\* the order of its elements.
C20_AggregationReadOnly == allCases["BillAnalytics"] = BillAnalyticsFeed(cases)

----------------------------------------------------------------------------
(* What the views show of a case's remaining amount *)

\* amount > 0 as JavaScript compares: false for NaN and undefined
GreaterThanZero(amount) ==
    Has(ToNumber(amount), "num") /\ ToNumber(amount).num > 0

\* amount <= 0 as JavaScript compares: false for NaN and undefined
AtMostZero(amount) ==
    Has(ToNumber(amount), "num") /\ ToNumber(amount).num <= 0

\* formatCurrency: Intl.NumberFormat('en-IN', currency INR, no fraction digits) of
\* (amount || 0); the rupee sign is written INR
formatCurrency(amount) ==
    LET n == ToNumber(AmountOrZero(amount))
    IN  IF ~Has(n, "num") THEN "NaN"
        ELSE IF n.num < 0 THEN "-INR " \o ToString(0 - n.num)
        ELSE "INR " \o ToString(n.num)

\* the elements a view renders from caseItem.remainingAmount: the list item of
\* BillAnalytics, of the bill list and of Dashboard, in document order
RemainingShown(v, caseItem) ==
    LET remainingAmount == Field(caseItem, "remainingAmount")
        due == IF GreaterThanZero(remainingAmount)
               THEN <<"Due: " \o formatCurrency(remainingAmount)>> ELSE <<>>
    IN  IF v = "BillAnalytics"
        THEN (IF remainingAmount # Undefined THEN due ELSE <<>>)
             \o (IF remainingAmount # Undefined /\ AtMostZero(remainingAmount)
                 THEN <<"Fully Paid">> ELSE <<>>)
        ELSE due

\* the lists whose items show the remaining amount
ListShown(v) ==
    IF v = "BillAnalytics" THEN Filtered.filteredCases ELSE allCases[v]

\* the three states of a remaining amount
Settlement(remainingAmount) ==
    IF remainingAmount.num > 0 THEN "outstanding"
    ELSE IF remainingAmount.num = 0 THEN "fully settled"
    ELSE "overpaid"

\* C21: every view that shows a case's remainingAmount shows a positive, a zero and
\* a negative remaining amount in three different ways: what a list item shows for
\* its case differs from what it would show for a remaining amount in another of
\* the three states.
C21_ThreeStatesShown ==
    \A v \in {"BillList", "BillAnalytics", "Dashboard"} :
        LET list == ListShown(v)
        IN  \A i \in 1..Len(list) :
                Has(list[i].remainingAmount, "num") =>
                    \A r \in {Num(1), Num(0), Num(0 - 1)} :
                        Settlement(r) # Settlement(list[i].remainingAmount) =>
                            RemainingShown(v, ("remainingAmount" :> r) @@ list[i])
                                # RemainingShown(v, list[i])

----------------------------------------------------------------------------
(* The feed delivered again *)

\* a faulty feed callback that keeps a running paidAmount across notifications
FeedNotification_Accumulates ==
    /\ allCases' = [v \in Views |->
            [i \in 1..Len(Feed(cases)[v]) |->
                IF Has(Feed(cases)[v][i], "paidAmount") /\ i <= Len(allCases[v])
                THEN [Feed(cases)[v][i] EXCEPT
                        !.paidAmount = Plus(Field(allCases[v][i], "paidAmount"), @)]
                ELSE Feed(cases)[v][i]]]
    /\ NoToast
    /\ UNCHANGED <<cases, pushed, writes, edits, selectedCase, isEditing, editFormData,
                   isUpdating, pending, isAddingPayment, formErrors, timeFilter>>

\* The onValue callbacks run again on the collection as it is: a view is mounted
\* again and subscribes, or the database delivers the value once more.
FeedNotification ==
    /\ allCases' = Feed(cases)
    /\ NoToast
    /\ UNCHANGED <<cases, pushed, writes, edits, selectedCase, isEditing, editFormData,
                   isUpdating, pending, isAddingPayment, formErrors, timeFilter>>

\* the bill list, the entry form, and the feed delivered again at any moment
NextFeeds == CreateCase \/ ViewStep({"BillList"}) \/ FeedNotification

SpecFeeds == Init /\ [][NextFeeds]_vars

\* the ledger amounts a list holds for each case
LedgerOf(list) ==
    { [id |-> list[i].id,
       totalAmount |-> Field(list[i], "totalAmount"),
       paidAmount |-> Field(list[i], "paidAmount"),
       remainingAmount |-> Field(list[i], "remainingAmount")] : i \in 1..Len(list) }

C23_TotalIsSumOfParticulars ==
    \A id \in DOMAIN cases :
        Field(cases[id], "totalAmount") = SumField(ParticularsOf(cases[id]), "amount")

\* C23 witness: a case has a recorded payment and particulars other than those it
\* was created with.
C23_Witness ==
    \E id \in DOMAIN cases :
        /\ StoredPayments(cases, id) # <<>>
        /\ \A d \in CreateSeeds : ParticularsOf(cases[id]) # d.particulars

----------------------------------------------------------------------------
(* The list views over a collection that holds two cases at mount *)

InitStored ==
    /\ cases = ("c1" :> StoredCase("2024-06-10T00:00:00.000Z", 2, <<>>))
                @@ ("c2" :> StoredCase("2024-06-09", 4, <<>>))
    /\ pushed = 2
    /\ writes = 0
    /\ edits = 0
    /\ timeFilter = "month"
    /\ allCases = Feed(cases)
    /\ selectedCase = [v \in Views |-> Null]
    /\ isEditing = [v \in Views |-> FALSE]
    /\ editFormData = [v \in Views |-> Null]
    /\ isUpdating = [v \in Views |-> FALSE]
    /\ pending = [v \in Views |-> Null]
    /\ isAddingPayment = [v \in Views |-> FALSE]
    /\ toast = ""
    /\ formErrors = {}

\* the users select, edit amounts, record payments and save; the writes settle
NextStored ==
    \/ Select(Pages)
    \/ Edit(Pages)
    \/ ParticularChange(Pages)
    \/ UpdateCase(Pages)
    \/ UpdateSucceeds(Pages)
    \/ UpdateFails(Pages)
    \/ AddPaymentClick(Pages)
    \/ SavePayment(Pages)
    \/ PaymentSucceeds(Pages)
    \/ PaymentFails(Pages)

SpecStored == InitStored /\ [][NextStored]_vars

\* C24: an updateCaseDetails or recordPayment write that targets one case changes
\* only the document stored under that case's id and stores no id field in it;
\* every other document stays as it is, also while a write to another case is in
\* flight.
C24_WritesOneDocument ==
    [][\A v \in Views :
          (UpdateResolved(v) \/ PaymentResolved(v)) =>
              /\ DOMAIN cases' = DOMAIN cases \cup {pending[v].id}
              /\ \A id \in DOMAIN cases : id # pending[v].id => cases'[id] = cases[id]
              /\ ~Has(cases'[pending[v].id], "id")
              /\ \A k \in DOMAIN pending[v].data :
                    k \notin {"particulars", "payments"} =>
                        cases'[pending[v].id][k] = pending[v].data[k]]_vars

\* C24 witness: a payment of one case has just been stored while an update of the
\* other case is in flight.
C24_Witness ==
    /\ toast = "Payment added successfully!"
    /\ pending["SearchCases"] # Null
    /\ selectedCase["BillList"] # Null
    /\ pending["SearchCases"].id # selectedCase["BillList"].id
    /\ StoredPayments(cases, selectedCase["BillList"].id) # <<>>

\* the fields of a case that identify it and carry its ledger, remainingAmount
\* apart (C2 is about the remainingAmount of the selected case after an update)
CaseFields ==
    {"billNumber", "caseNumber", "caseDescription", "date", "particulars", "payments",
     "totalAmount", "paidAmount"}

\* C25: whenever the bill list has a selected case, its identifying fields, its
\* particulars, its payments and its amounts are those of the one case whose id it
\* carries, as the list of the view holds that case, also after a write for one
\* case has completed while another case is selected.
C25_SelectedCaseCoherent ==
    LET sel == selectedCase["BillList"]
        list == allCases["BillList"]
    IN  sel # Null =>
            \A i \in 1..Len(list) :
                list[i].id = sel.id =>
                    \A k \in CaseFields : Field(sel, k) = Field(list[i], k)

\* C26: the completion of an update in flight, by success or by failure, leaves
\* the selection of its view where the user put it: nothing selected stays nothing
\* selected, and a selected case stays the case of the same id.
C26_SelectionByUserOnly ==
    [][\A v \in Views :
          (UpdateResolved(v) \/ UpdateRejected(v)) =>
              IF selectedCase[v] = Null THEN selectedCase'[v] = Null
              ELSE /\ selectedCase'[v] # Null
                   /\ selectedCase'[v].id = selectedCase[v].id]_vars

\* C27: opening the edit form, every change made in it (a field, an amount, a
\* particular's type, a particular added or removed) and Cancel leave the selected
\* case, the lists, the store and the writes as they are, and Cancel closes the
\* form and drops its working copy: after Cancel these are as they were when the
\* form was opened, and no write was issued.
C27_CancelDiscardsEdit ==
    [][\A v \in Views :
          /\ (\/ handleEdit(v)
              \/ \E c \in FormChanges : handleFormChange(v, c[1], c[2])
              \/ \E i \in FormIndexes(v) : \E a \in AmountsTyped :
                    handleParticularChange(v, i, a)
              \/ \E i \in FormIndexes(v) : \E t \in TypesSelected :
                    handleParticularTypeSelect(v, i, t)
              \/ handleAddParticular(v)
              \/ \E i \in FormIndexes(v) : handleRemoveParticular(v, i)
              \/ handleCancelEdit(v)) =>
                 UNCHANGED <<cases, allCases, selectedCase, writes, pending, isUpdating>>
          /\ handleCancelEdit(v) => (~isEditing'[v] /\ editFormData'[v] = Null)]_vars

\* C27 witness: a change was made in the edit form of the bill list and the form
\* was closed by Cancel: the form is closed, its case is still selected and no
\* update or payment was ever written.
C27_Witness ==
    /\ edits > 0
    /\ ~isEditing["BillList"]
    /\ editFormData["BillList"] = Null
    /\ selectedCase["BillList"] # Null
    /\ ~isEditing["SearchCases"]
    /\ selectedCase["SearchCases"] = Null
    /\ writes = pushed
    /\ \A v \in Views : pending[v] = Null

\* C28: in every view isUpdating is true exactly while a write of a save action is
\* in flight; a save action starts a write only when isUpdating is false, so a view
\* has at most one write in flight; and every write that settles, by success or by
\* failure, leaves isUpdating false.
C28_UpdatingWhileInFlight ==
    /\ [](\A v \in Views : isUpdating[v] <=> pending[v] # Null)
    /\ [][\A v \in Views :
            /\ ((\/ handleUpdateCase(v)
                 \/ \E a \in PaymentAmountsTyped : \E m \in PaymentMethodsChosen :
                       \E d \in PaymentDatesChosen : handleSavePayment(v, a, m, d))
                /\ writes' # writes) =>
                   (~isUpdating[v] /\ pending[v] = Null /\ isUpdating'[v] /\ pending'[v] # Null)
            /\ (UpdateResolved(v) \/ UpdateRejected(v)
                    \/ PaymentResolved(v) \/ PaymentRejected(v)) =>
                   (~isUpdating'[v] /\ pending'[v] = Null)]_vars

\* C28 witness: the bill list and the search page each have a write in flight.
C28_Witness ==
    /\ isUpdating["BillList"] /\ pending["BillList"] # Null
    /\ isUpdating["SearchCases"] /\ pending["SearchCases"] # Null

----------------------------------------------------------------------------
(* The windows of BillAnalytics at other days of render *)

\* const now = new Date() on the day of the model, on the Sunday before, on days
\* the stored dates name, and a year after one of them
AsOfInstants ==
    {Now} \cup { DateAt(DaysFromCivil(d[1], d[2], d[3])) :
                    d \in {<<2024, 6, 9>>, <<2024, 3, 15>>, <<2024, 4, 3>>,
                           <<2023, 12, 25>>, <<2024, 12, 25>>} }

\* the ids of the cases a window keeps
IdsOf(cs) == { cs[i].id : i \in 1..Len(cs) }

\* C29: for every snapshot and every day of render the windows are nested: the cases
\* of 'today' are among those of 'week' and of 'month', those of 'month' among
\* those of 'year', those of 'year' among those of 'all', and totalCases (the
\* length of casesForPeriod) grows along these inclusions.
C29_WindowsNested ==
    \A now \in AsOfInstants :
        LET cs == allCases["BillAnalytics"]
            today == CasesForPeriod(cs, "today", now)
            week == CasesForPeriod(cs, "week", now)
            month == CasesForPeriod(cs, "month", now)
            year == CasesForPeriod(cs, "year", now)
            all == CasesForPeriod(cs, "all", now)
        IN  /\ IdsOf(today) \subseteq IdsOf(week)
            /\ IdsOf(today) \subseteq IdsOf(month)
            /\ IdsOf(month) \subseteq IdsOf(year)
            /\ IdsOf(year) \subseteq IdsOf(all)
            /\ Len(today) <= Len(week)
            /\ Len(today) <= Len(month)
            /\ Len(month) <= Len(year)
            /\ Len(year) <= Len(all)

\* C29 witness: 'today' is shown and is not empty, the month holds more cases than
\* the day, and the year more than the month.
C29_Witness ==
    /\ timeFilter = "today"
    /\ Filtered.filteredCases # <<>>
    /\ LET cs == allCases["BillAnalytics"]
       IN  /\ Len(CasesForPeriod(cs, "today", Now)) < Len(CasesForPeriod(cs, "month", Now))
           /\ Len(CasesForPeriod(cs, "month", Now)) < Len(CasesForPeriod(cs, "year", Now))

RECURSIVE AmountsTotal(_)
\* the sum of the amounts of a list of payments, a payment whose amount is missing
\* or not a number counting as 0
AmountsTotal(ps) ==
    IF ps = <<>> THEN 0
    ELSE AmountsTotal(SubSeq(ps, 1, Len(ps) - 1))
            + (IF Has(Field(ps[Len(ps)], "amount"), "num") THEN ps[Len(ps)].amount.num ELSE 0)

\* C30: in every list derived from the feed (bill list, BillAnalytics, Dashboard)
\* every case has paidAmount = the sum of the amounts of its stored payments and
\* remainingAmount = the stored totalAmount (0 if absent) minus that paidAmount,
\* whatever paidAmount and remainingAmount the document stores.
C30_DerivedFromStoredPayments ==
    \A v \in {"BillList", "BillAnalytics", "Dashboard"} :
        \A i \in 1..Len(allCases[v]) :
            LET c == allCases[v][i]
                paid == Num(AmountsTotal(StoredPayments(cases, c.id)))
            IN  /\ c.paidAmount = paid
                /\ c.remainingAmount =
                        Minus(AmountOrZero(Field(cases[c.id], "totalAmount")), paid)

====
